---- MODULE Spec2Model ----
(***************************************************************************)
(* A model of custom::list<T> (src/list.h): a doubly-linked list with raw  *)
(* head/tail pointers, an element count kept incrementally, and iterators  *)
(* that name a position by node identity.                                  *)
(*                                                                         *)
(* The heap is a finite pool of node addresses.  Two list objects, A and   *)
(* B, live in two storage slots; a slot holds a constructed list or not.   *)
(* The element type T is instantiated with small integers, for which       *)
(* std::move is a copy.  Every public operation is one atomic action (the  *)
(* program is single threaded).                                            *)
(***************************************************************************)
EXTENDS Integers, Sequences, FiniteSets, TLC

\* ---- bounds ------------------------------------------------------------
MaxNodes == 3          \* size of the node pool (addresses 1..MaxNodes)
MaxLit   == 2          \* longest literal sequence (initializer_list)

Null   == 0            \* nullptr
Nodes  == 1..MaxNodes
\* The element type T.  The list never inspects an element (it only copies
\* and moves them), so two distinct values are enough to tell any two
\* positions of a sequence apart.
Values == {1, 2}
Lists  == {"A", "B"}
NoList == "-"
NoData == Null         \* content of storage that holds no node
Lits   == UNION {[1..k -> Values] : k \in 0..MaxLit}

VARIABLES
  data,         \* Node::data,  per node address
  pNext,        \* Node::pNext, per node address
  pPrev,        \* Node::pPrev, per node address
  live,         \* addresses obtained from new and not yet given to delete
  pHead,        \* list::pHead, per list
  pTail,        \* list::pTail, per list
  numElements,  \* list::numElements (size_t), per list; C1 shows it is never
                \* decremented at 0, so the unsigned wrap-around never happens
  constructed,  \* whether the slot holds a list whose lifetime has begun
  aborted,      \* whether an assert of erase has failed and ended the program
  last          \* the last call: operation, arguments and returned iterator

vars == <<data, pNext, pPrev, live, pHead, pTail, numElements, constructed,
          aborted, last>>

\* The heap and the list objects as one value, so that an operation is a
\* function from heap to heap and operations can call each other.
HS == [data |-> data, pNext |-> pNext, pPrev |-> pPrev, live |-> live,
       pHead |-> pHead, pTail |-> pTail, numElements |-> numElements,
       aborted |-> aborted]

Set(h) ==
  /\ data' = h.data
  /\ pNext' = h.pNext
  /\ pPrev' = h.pPrev
  /\ live' = h.live
  /\ pHead' = h.pHead
  /\ pTail' = h.pTail
  /\ numElements' = h.numElements
  /\ aborted' = h.aborted

Call(op, l, r, it, v, lit, ret, n) ==
  [op |-> op, l |-> l, r |-> r, it |-> it, v |-> v, lit |-> lit, ret |-> ret, n |-> n,
   fail |-> "none"]

\* a call that ended in a failure raised to the caller: only the operation,
\* the list and the failure are recorded
Raised(op, l, kind) ==
  [Call(op, l, NoList, Null, 0, <<>>, Null, 0) EXCEPT !.fail = kind]

\* ---- allocation --------------------------------------------------------
Free(h) == Nodes \ h.live

\* the orders in which an allocator may hand out k of the free addresses
AllocOrders(h, k) ==
  {f \in [1..k -> Free(h)] : \A i, j \in DOMAIN f : i # j => f[i] # f[j]}

Max(a, b) == IF a >= b THEN a ELSE b

\* the address the next new returns under the allocator order
Alloc(h, order) ==
  LET cand == {i \in DOMAIN order : order[i] \notin h.live}
  IN  IF cand = {} THEN Null
      ELSE order[CHOOSE i \in cand : \A j \in cand : i <= j]

\* new Node(data): pNext and pPrev are null
NewNode(h, n, v) ==
  [h EXCEPT !.live = @ \cup {n}, !.data[n] = v, !.pNext[n] = Null, !.pPrev[n] = Null]

\* delete p: the storage no longer holds a node
Delete(h, p) ==
  [h EXCEPT !.live = @ \ {p}, !.data[p] = NoData, !.pNext[p] = Null, !.pPrev[p] = Null]

\* ---- status, iterators -------------------------------------------------
size(h, l)   == h.numElements[l]
empty(h, l)  == (size(h, l) = 0)
begin(h, l)  == h.pHead[l]
rbegin(h, l) == h.pTail[l]
end          == Null

iter_inc(h, p)      == IF p # Null THEN h.pNext[p] ELSE p
iter_inc_post(h, p) == IF p # Null THEN h.pNext[p] ELSE p
iter_dec(h, p)      == IF p # Null THEN h.pPrev[p] ELSE p
\* mutant: the postfix decrement moves forward
iter_dec_post_forward(h, p) == IF p # Null THEN h.pNext[p] ELSE p

iter_dec_post(h, p) == IF p # Null THEN h.pPrev[p] ELSE p

\* operator*: the element of the named node; a failure on the null position
deref(h, p) ==
  IF p # Null THEN [fail |-> "none", ref |-> p, v |-> h.data[p]]
  ELSE [fail |-> "throw", ref |-> Null, v |-> NoData]

\* ---- access ------------------------------------------------------------
front(h, l) ==
  IF h.pHead[l] # Null
  THEN [fail |-> "none", ref |-> h.pHead[l], v |-> h.data[h.pHead[l]]]
  ELSE [fail |-> "throw", ref |-> Null, v |-> NoData]

\* mutant: the head's element is returned
back_of_head(h, l) ==
  IF h.pTail[l] # Null
  THEN [fail |-> "none", ref |-> h.pHead[l], v |-> h.data[h.pHead[l]]]
  ELSE [fail |-> "throw", ref |-> Null, v |-> NoData]

back(h, l) ==
  IF h.pTail[l] # Null
  THEN [fail |-> "none", ref |-> h.pTail[l], v |-> h.data[h.pTail[l]]]
  ELSE [fail |-> "throw", ref |-> Null, v |-> NoData]

\* ---- push --------------------------------------------------------------
\* mutant: the count is incremented before the node is allocated
push_back_count_first(h, l, v, n) ==
  IF n = Null THEN [h EXCEPT !.numElements[l] = @ + 1] ELSE
  LET h1 == NewNode(h, n, v)
      h2 == IF h.pHead[l] = Null
            THEN [h1 EXCEPT !.pHead[l] = n, !.pTail[l] = n]
            ELSE [h1 EXCEPT !.pPrev[n] = h.pTail[l],
                            !.pNext[h.pTail[l]] = n,
                            !.pTail[l] = n]
  IN  [h2 EXCEPT !.numElements[l] = @ + 1]

push_back(h, l, v, n) ==
  IF n = Null THEN h ELSE  \* new throws before anything is assigned
  LET h1 == NewNode(h, n, v)
      h2 == IF h.pHead[l] = Null
            THEN [h1 EXCEPT !.pHead[l] = n, !.pTail[l] = n]
            ELSE [h1 EXCEPT !.pPrev[n] = h.pTail[l],
                            !.pNext[h.pTail[l]] = n,
                            !.pTail[l] = n]
  IN  [h2 EXCEPT !.numElements[l] = @ + 1]

push_back_move(h, l, v, n) ==
  IF n = Null THEN h ELSE  \* new throws before anything is assigned
  LET h1 == NewNode(h, n, v)
      h2 == IF h.pHead[l] = Null
            THEN [h1 EXCEPT !.pHead[l] = n, !.pTail[l] = n]
            ELSE [h1 EXCEPT !.pPrev[n] = h.pTail[l],
                            !.pNext[h.pTail[l]] = n,
                            !.pTail[l] = n]
  IN  [h2 EXCEPT !.numElements[l] = @ + 1]

\* mutant: the old head's back-link is not set
push_front_no_backlink(h, l, v, n) ==
  IF n = Null THEN h ELSE  \* new throws before anything is assigned
  LET h1 == NewNode(h, n, v)
      h2 == IF h.pTail[l] = Null
            THEN [h1 EXCEPT !.pHead[l] = n, !.pTail[l] = n]
            ELSE [h1 EXCEPT !.pNext[n] = h.pHead[l],
                            !.pHead[l] = n]
  IN  [h2 EXCEPT !.numElements[l] = @ + 1]

push_front(h, l, v, n) ==
  IF n = Null THEN h ELSE  \* new throws before anything is assigned
  LET h1 == NewNode(h, n, v)
      h2 == IF h.pTail[l] = Null
            THEN [h1 EXCEPT !.pHead[l] = n, !.pTail[l] = n]
            ELSE [h1 EXCEPT !.pNext[n] = h.pHead[l],
                            !.pPrev[h.pHead[l]] = n,
                            !.pHead[l] = n]
  IN  [h2 EXCEPT !.numElements[l] = @ + 1]

\* mutant: the move variant links the node at the back
push_front_move_at_back(h, l, v, n) ==
  IF n = Null THEN h ELSE  \* new throws before anything is assigned
  LET h1 == NewNode(h, n, v)
      h2 == IF h.pHead[l] = Null
            THEN [h1 EXCEPT !.pHead[l] = n, !.pTail[l] = n]
            ELSE [h1 EXCEPT !.pPrev[n] = h.pTail[l],
                            !.pNext[h.pTail[l]] = n,
                            !.pTail[l] = n]
  IN  [h2 EXCEPT !.numElements[l] = @ + 1]

push_front_move(h, l, v, n) ==
  IF n = Null THEN h ELSE  \* new throws before anything is assigned
  LET h1 == NewNode(h, n, v)
      h2 == IF h.pTail[l] = Null
            THEN [h1 EXCEPT !.pHead[l] = n, !.pTail[l] = n]
            ELSE [h1 EXCEPT !.pNext[n] = h.pHead[l],
                            !.pPrev[h.pHead[l]] = n,
                            !.pHead[l] = n]
  IN  [h2 EXCEPT !.numElements[l] = @ + 1]

\* ---- erase, pop, clear -------------------------------------------------
\* mutant: the count is not decremented
erase_no_count(h, l, p) ==
  IF p = Null THEN h
  ELSE
    LET h1 == IF h.pPrev[p] # Null
              THEN [h EXCEPT !.pNext[h.pPrev[p]] = h.pNext[p]]
              ELSE [h EXCEPT !.pHead[l] = h.pNext[p]]
        h2 == IF h1.pNext[p] # Null
              THEN [h1 EXCEPT !.pPrev[h1.pNext[p]] = h1.pPrev[p]]
              ELSE [h1 EXCEPT !.pTail[l] = h1.pPrev[p]]
    IN  Delete(h2, p)

\* mutant: the unlinked node is not deleted
erase_no_delete(h, l, p) ==
  IF p = Null THEN h
  ELSE
    LET h1 == IF h.pPrev[p] # Null
              THEN [h EXCEPT !.pNext[h.pPrev[p]] = h.pNext[p]]
              ELSE [h EXCEPT !.pHead[l] = h.pNext[p]]
        h2 == IF h1.pNext[p] # Null
              THEN [h1 EXCEPT !.pPrev[h1.pNext[p]] = h1.pPrev[p]]
              ELSE [h1 EXCEPT !.pTail[l] = h1.pPrev[p]]
    IN  [h2 EXCEPT !.numElements[l] = @ - 1]

\* mutant: the count is decremented before the null position is tested
erase_count_first(h, l, p) ==
  IF p = Null THEN [h EXCEPT !.numElements[l] = @ - 1]
  ELSE
    LET h1 == IF h.pPrev[p] # Null
              THEN [h EXCEPT !.pNext[h.pPrev[p]] = h.pNext[p]]
              ELSE [h EXCEPT !.pHead[l] = h.pNext[p]]
        h2 == IF h1.pNext[p] # Null
              THEN [h1 EXCEPT !.pPrev[h1.pNext[p]] = h1.pPrev[p]]
              ELSE [h1 EXCEPT !.pTail[l] = h1.pPrev[p]]
        h3 == Delete(h2, p)
    IN  [h3 EXCEPT !.numElements[l] = @ - 1]

\* assert(c): a false condition ends the program where it stands
assert(h, c) == IF c THEN h ELSE [h EXCEPT !.aborted = TRUE]

\* mutant: erasing the head leaves the head pointer where it was
erase_keep_head(h, l, p) ==
  IF p = Null THEN h
  ELSE
    LET h1 == IF h.pPrev[p] # Null
              THEN [h EXCEPT !.pNext[h.pPrev[p]] = h.pNext[p]]
              ELSE assert(h, p = h.pHead[l])
        h2 == IF h1.aborted THEN h1
              ELSE IF h1.pNext[p] # Null
              THEN [h1 EXCEPT !.pPrev[h1.pNext[p]] = h1.pPrev[p]]
              ELSE LET a == assert(h1, p = h1.pTail[l])
                   IN  IF a.aborted THEN a ELSE [a EXCEPT !.pTail[l] = a.pPrev[p]]
        h3 == Delete(h2, p)
    IN  IF h2.aborted THEN h2 ELSE [h3 EXCEPT !.numElements[l] = @ - 1]

erase(h, l, p) ==
  IF p = Null THEN h
  ELSE
    LET h1 == IF h.pPrev[p] # Null
              THEN [h EXCEPT !.pNext[h.pPrev[p]] = h.pNext[p]]
              ELSE LET a == assert(h, p = h.pHead[l])
                   IN  IF a.aborted THEN a ELSE [a EXCEPT !.pHead[l] = a.pNext[p]]
        h2 == IF h1.aborted THEN h1
              ELSE IF h1.pNext[p] # Null
              THEN [h1 EXCEPT !.pPrev[h1.pNext[p]] = h1.pPrev[p]]
              ELSE LET a == assert(h1, p = h1.pTail[l])
                   IN  IF a.aborted THEN a ELSE [a EXCEPT !.pTail[l] = a.pPrev[p]]
        h3 == Delete(h2, p)
    IN  IF h2.aborted THEN h2 ELSE [h3 EXCEPT !.numElements[l] = @ - 1]

\* mutant: the node before the erased one is returned
erase_ret_prev(h, l, p) ==
  IF p = Null THEN Null
  ELSE IF h.pPrev[p] # Null THEN h.pPrev[p] ELSE Null

\* the iterator erase returns
erase_ret(h, l, p) ==
  IF p = Null THEN Null
  ELSE IF erase(h, l, p).aborted THEN Null     \* erase did not return
  ELSE IF h.pNext[p] # Null THEN h.pNext[p] ELSE Null

pop_back(h, l)  == erase(h, l, h.pTail[l])
pop_front(h, l) == erase(h, l, h.pHead[l])

\* mutant: the tail pointer is not reset
RECURSIVE clear_keep_tail(_, _)
clear_keep_tail(h, l) ==
  IF h.pHead[l] # Null
  THEN LET pDelete == h.pHead[l]
           h1 == [h EXCEPT !.pHead[l] = h.pNext[pDelete]]
           h2 == Delete(h1, pDelete)
       IN  clear_keep_tail([h2 EXCEPT !.numElements[l] = @ - 1], l)
  ELSE h

RECURSIVE clear(_, _)
clear(h, l) ==
  IF h.pHead[l] # Null
  THEN LET pDelete == h.pHead[l]
           h1 == [h EXCEPT !.pHead[l] = h.pNext[pDelete]]
           h2 == Delete(h1, pDelete)
       IN  clear([h2 EXCEPT !.numElements[l] = @ - 1], l)
  ELSE [h EXCEPT !.pTail[l] = Null]

\* ---- insert ------------------------------------------------------------
\* mutant: the predecessor's forward link is not set
insert_no_forward_link(h, l, it, v, n) ==
  IF n = Null THEN h ELSE  \* new throws before anything is assigned
  IF empty(h, l)
  THEN [NewNode(h, n, v) EXCEPT !.pHead[l] = n, !.pTail[l] = n, !.numElements[l] = 1]
  ELSE IF it = end
  THEN LET h1 == NewNode(h, n, v)
           h2 == [h1 EXCEPT !.pNext[h1.pTail[l]] = n]
           h3 == [h2 EXCEPT !.pPrev[n] = h2.pTail[l]]
           h4 == [h3 EXCEPT !.pTail[l] = n]
       IN  [h4 EXCEPT !.numElements[l] = @ + 1]
  ELSE LET h1 == NewNode(h, n, v)
           h2 == [h1 EXCEPT !.pPrev[n] = h1.pPrev[it]]
           h3 == [h2 EXCEPT !.pNext[n] = it]
           h4 == IF h3.pPrev[n] # Null
                 THEN h3
                 ELSE [h3 EXCEPT !.pHead[l] = n]
           h5 == IF h4.pNext[n] # Null
                 THEN [h4 EXCEPT !.pPrev[h4.pNext[n]] = n]
                 ELSE [h4 EXCEPT !.pTail[l] = n]
       IN  [h5 EXCEPT !.numElements[l] = @ + 1]

insert(h, l, it, v, n) ==
  IF n = Null THEN h ELSE  \* new throws before anything is assigned
  IF empty(h, l)
  THEN [NewNode(h, n, v) EXCEPT !.pHead[l] = n, !.pTail[l] = n, !.numElements[l] = 1]
  ELSE IF it = end
  THEN LET h1 == NewNode(h, n, v)
           h2 == [h1 EXCEPT !.pNext[h1.pTail[l]] = n]
           h3 == [h2 EXCEPT !.pPrev[n] = h2.pTail[l]]
           h4 == [h3 EXCEPT !.pTail[l] = n]
       IN  [h4 EXCEPT !.numElements[l] = @ + 1]
  ELSE LET h1 == NewNode(h, n, v)
           h2 == [h1 EXCEPT !.pPrev[n] = h1.pPrev[it]]
           h3 == [h2 EXCEPT !.pNext[n] = it]
           h4 == IF h3.pPrev[n] # Null
                 THEN [h3 EXCEPT !.pNext[h3.pPrev[n]] = n]
                 ELSE [h3 EXCEPT !.pHead[l] = n]
           h5 == IF h4.pNext[n] # Null
                 THEN [h4 EXCEPT !.pPrev[h4.pNext[n]] = n]
                 ELSE [h4 EXCEPT !.pTail[l] = n]
       IN  [h5 EXCEPT !.numElements[l] = @ + 1]

insert_move(h, l, it, v, n) ==
  IF n = Null THEN h ELSE  \* new throws before anything is assigned
  IF empty(h, l)
  THEN [NewNode(h, n, v) EXCEPT !.pHead[l] = n, !.pTail[l] = n, !.numElements[l] = 1]
  ELSE IF it = end
  THEN LET h1 == NewNode(h, n, v)
           h2 == [h1 EXCEPT !.pNext[h1.pTail[l]] = n]
           h3 == [h2 EXCEPT !.pPrev[n] = h2.pTail[l]]
           h4 == [h3 EXCEPT !.pTail[l] = n]
       IN  [h4 EXCEPT !.numElements[l] = @ + 1]
  ELSE LET h1 == NewNode(h, n, v)
           h2 == [h1 EXCEPT !.pPrev[n] = h1.pPrev[it]]
           h3 == [h2 EXCEPT !.pNext[n] = it]
           h4 == IF h3.pPrev[n] # Null
                 THEN [h3 EXCEPT !.pNext[h3.pPrev[n]] = n]
                 ELSE [h3 EXCEPT !.pHead[l] = n]
           h5 == IF h4.pNext[n] # Null
                 THEN [h4 EXCEPT !.pPrev[h4.pNext[n]] = n]
                 ELSE [h4 EXCEPT !.pTail[l] = n]
       IN  [h5 EXCEPT !.numElements[l] = @ + 1]

\* the iterator insert returns: begin() on an empty list, else the new node
insert_ret(h, l, it, v, n) ==
  IF empty(h, l) THEN begin(insert(h, l, it, v, n), l) ELSE n

insert_move_ret(h, l, it, v, n) ==
  IF empty(h, l) THEN begin(insert_move(h, l, it, v, n), l) ELSE n

\* ---- copy assignment ---------------------------------------------------
\* the lock-step loop: overwrite values until one side is exhausted
RECURSIVE copy_walk(_, _, _, _, _)
copy_walk(h, l, r, itRhs, itLhs) ==
  IF itRhs # end /\ itLhs # end
  THEN LET h1 == [h EXCEPT !.data[itLhs] = h.data[itRhs]]
       IN  copy_walk(h1, l, r, iter_inc(h1, itRhs), iter_inc(h1, itLhs))
  ELSE [h |-> h, itRhs |-> itRhs, itLhs |-> itLhs]

RECURSIVE copy_append(_, _, _, _)
copy_append(h, l, itRhs, order) ==
  IF itRhs # end
  THEN LET h1 == push_back(h, l, h.data[itRhs], Alloc(h, order))
       IN  copy_append(h1, l, iter_inc(h1, itRhs), order)
  ELSE h

RECURSIVE copy_trim(_, _, _)
copy_trim(h, l, itLhs) ==
  IF itLhs # Null
  THEN copy_trim(erase(h, l, itLhs), l, erase_ret(h, l, itLhs))
  ELSE h

\* mutant: a destination longer than the source is not trimmed
copy_assign_no_trim(h, l, r, order) ==
  LET w == copy_walk(h, l, r, begin(h, r), begin(h, l))
  IN  IF w.itRhs # end THEN copy_append(w.h, l, w.itRhs, order)
      ELSE IF empty(w.h, r) THEN clear(w.h, l)
      ELSE w.h

\* mutant: the destination is emptied first and the source copied after
copy_assign_clear_first(h, l, r, order) ==
  LET h1 == clear(h, l)
  IN  copy_append(h1, l, begin(h1, r), order)

copy_assign(h, l, r, order) ==
  LET w == copy_walk(h, l, r, begin(h, r), begin(h, l))
  IN  IF w.itRhs # end THEN copy_append(w.h, l, w.itRhs, order)
      ELSE IF empty(w.h, r) THEN clear(w.h, l)
      ELSE IF w.itLhs # end THEN copy_trim(w.h, l, w.itLhs)
      ELSE w.h

\* ---- move assignment ---------------------------------------------------
RECURSIVE move_walk(_, _, _, _, _)
move_walk(h, l, r, itRhs, itLhs) ==
  IF itRhs # end /\ itLhs # end
  THEN LET h1 == [h EXCEPT !.data[itLhs] = h.data[itRhs]]
       IN  move_walk(h1, l, r, iter_inc(h1, itRhs), iter_inc(h1, itLhs))
  ELSE [h |-> h, itRhs |-> itRhs, itLhs |-> itLhs]

RECURSIVE move_append(_, _, _, _)
move_append(h, l, itRhs, order) ==
  IF itRhs # end
  THEN LET h1 == push_back_move(h, l, h.data[itRhs], Alloc(h, order))
       IN  move_append(h1, l, iter_inc(h1, itRhs), order)
  ELSE h

RECURSIVE move_trim(_, _, _)
move_trim(h, l, itLhs) ==
  IF itLhs # Null
  THEN move_trim(erase(h, l, itLhs), l, erase_ret(h, l, itLhs))
  ELSE h

\* mutant: the destination is cleared and takes over the source's nodes
move_assign_steal(h, l, r, order) ==
  LET h1 == clear(h, l)
      h2 == [h1 EXCEPT !.pHead[l] = h1.pHead[r], !.pTail[l] = h1.pTail[r],
                       !.numElements[l] = h1.numElements[r]]
  IN  IF l = r THEN h1
      ELSE [h2 EXCEPT !.pHead[r] = Null, !.pTail[r] = Null, !.numElements[r] = 0]

move_assign(h, l, r, order) ==
  LET w == move_walk(h, l, r, begin(h, r), begin(h, l))
  IN  IF w.itRhs # end THEN move_append(w.h, l, w.itRhs, order)
      ELSE IF empty(w.h, r) THEN clear(w.h, l)
      ELSE IF w.itLhs # end THEN move_trim(w.h, l, w.itLhs)
      ELSE w.h

\* ---- assignment from a literal sequence --------------------------------
RECURSIVE il_loop(_, _, _, _, _, _)
il_loop(h, l, rhs, i, itLhs, order) ==
  IF i > Len(rhs) THEN [h |-> h, itLhs |-> itLhs]
  ELSE LET item == rhs[i]
           h1 == IF itLhs = end
                 THEN push_back(h, l, item, Alloc(h, order))
                 ELSE [h EXCEPT !.data[itLhs] = item]
       IN  il_loop(h1, l, rhs, i + 1, iter_inc_post(h1, itLhs), order)

\* mutant: only the first surplus node is erased
il_trim_once(h, l, itLhs) ==
  IF itLhs # Null THEN erase(h, l, itLhs) ELSE h

RECURSIVE il_trim(_, _, _)
il_trim(h, l, itLhs) ==
  IF itLhs # Null
  THEN il_trim(erase(h, l, itLhs), l, erase_ret(h, l, itLhs))
  ELSE h

il_assign(h, l, rhs, order) ==
  LET w == il_loop(h, l, rhs, 1, begin(h, l), order)
  IN  IF w.itLhs # end THEN il_trim(w.h, l, w.itLhs) ELSE w.h

\* ---- swap --------------------------------------------------------------
\* The free function.  The class befriends a non-template swap, not this
\* template, so a program that calls it does not build; what is modelled is
\* its body.
swap(h, lhs, rhs) ==
  [h EXCEPT !.pHead = [@ EXCEPT ![lhs] = h.pHead[rhs], ![rhs] = h.pHead[lhs]],
            !.pTail = [@ EXCEPT ![lhs] = h.pTail[rhs], ![rhs] = h.pTail[lhs]],
            !.numElements = [@ EXCEPT ![lhs] = h.numElements[rhs],
                                      ![rhs] = h.numElements[lhs]]]

\* mutant: the counts are not exchanged
list_swap_no_count(h, l, rhs) ==
  [h EXCEPT !.pHead = [@ EXCEPT ![l] = h.pHead[rhs], ![rhs] = h.pHead[l]],
            !.pTail = [@ EXCEPT ![l] = h.pTail[rhs], ![rhs] = h.pTail[l]]]

list_swap(h, l, rhs) ==
  [h EXCEPT !.pHead = [@ EXCEPT ![l] = h.pHead[rhs], ![rhs] = h.pHead[l]],
            !.pTail = [@ EXCEPT ![l] = h.pTail[rhs], ![rhs] = h.pTail[l]],
            !.numElements = [@ EXCEPT ![l] = h.numElements[rhs],
                                      ![rhs] = h.numElements[l]]]

\* ---- constructors ------------------------------------------------------
list_default(h, l) ==
  [h EXCEPT !.pHead[l] = Null, !.pTail[l] = Null, !.numElements[l] = 0]

list_copy(h, l, rhs, order) ==
  copy_assign([h EXCEPT !.pHead[l] = Null, !.pTail[l] = Null, !.numElements[l] = 0],
              l, rhs, order)

\* mutant: the source keeps its count
list_move_keep_count(h, l, rhs) ==
  LET h1 == [h EXCEPT !.pHead[l] = h.pHead[rhs], !.pTail[l] = h.pTail[rhs],
                      !.numElements[l] = h.numElements[rhs]]
  IN  [h1 EXCEPT !.pHead[rhs] = Null, !.pTail[rhs] = Null]

\* mutant: the source keeps its head and tail
list_move_keep_source(h, l, rhs) ==
  LET h1 == [h EXCEPT !.pHead[l] = h.pHead[rhs], !.pTail[l] = h.pTail[rhs],
                      !.numElements[l] = h.numElements[rhs]]
  IN  [h1 EXCEPT !.numElements[rhs] = 0]

list_move(h, l, rhs) ==
  LET h1 == [h EXCEPT !.pHead[l] = h.pHead[rhs], !.pTail[l] = h.pTail[rhs],
                      !.numElements[l] = h.numElements[rhs]]
      h2 == [h1 EXCEPT !.pHead[rhs] = Null, !.pTail[rhs] = Null]
  IN  [h2 EXCEPT !.numElements[rhs] = 0]

\* list(num, t): push t to the back num times
RECURSIVE fill_loop(_, _, _, _, _, _)
fill_loop(h, l, i, num, t, order) ==
  IF i < num
  THEN fill_loop(push_back(h, l, t, Alloc(h, order)), l, i + 1, num, t, order)
  ELSE h

list_fill(h, l, num, t, order) ==
  fill_loop([h EXCEPT !.numElements[l] = 0, !.pHead[l] = Null, !.pTail[l] = Null],
            l, 0, num, t, order)

\* list(first, last): the source range is the sequence src, it its cursor
RECURSIVE range_loop(_, _, _, _, _)
range_loop(h, l, src, it, order) ==
  IF it # Len(src) + 1
  THEN range_loop(push_back(h, l, src[it], Alloc(h, order)), l, src, it + 1, order)
  ELSE h

list_range(h, l, src, order) ==
  range_loop([h EXCEPT !.pHead[l] = Null, !.pTail[l] = Null, !.numElements[l] = 0],
             l, src, 1, order)

\* mutant: the literal's elements are pushed to the front
RECURSIVE il_ctor_loop_front(_, _, _, _, _)
il_ctor_loop_front(h, l, il, it, order) ==
  IF it # Len(il) + 1
  THEN il_ctor_loop_front(push_front(h, l, il[it], Alloc(h, order)), l, il, it + 1, order)
  ELSE h

list_il_front(h, l, il, order) ==
  il_ctor_loop_front([h EXCEPT !.pHead[l] = Null, !.pTail[l] = Null, !.numElements[l] = 0],
                     l, il, 1, order)

\* list(il): push each element of the literal to the back
RECURSIVE il_ctor_loop(_, _, _, _, _)
il_ctor_loop(h, l, il, it, order) ==
  IF it # Len(il) + 1
  THEN il_ctor_loop(push_back(h, l, il[it], Alloc(h, order)), l, il, it + 1, order)
  ELSE h

list_il(h, l, il, order) ==
  il_ctor_loop([h EXCEPT !.pHead[l] = Null, !.pTail[l] = Null, !.numElements[l] = 0],
               l, il, 1, order)

list_destroy(h, l) == clear(h, l)

\* ---- observation -------------------------------------------------------
\* the nodes met from p by following pNext, at most k of them
RECURSIVE Walk(_, _, _)
Walk(h, p, k) ==
  IF p = Null \/ k = 0 THEN <<>> ELSE <<p>> \o Walk(h, h.pNext[p], k - 1)

\* the nodes met from p by following pPrev, at most k of them
RECURSIVE WalkBack(_, _, _)
WalkBack(h, p, k) ==
  IF p = Null \/ k = 0 THEN <<>> ELSE <<p>> \o WalkBack(h, h.pPrev[p], k - 1)

NodesOf(h, l)  == Walk(h, h.pHead[l], MaxNodes + 1)
Range(s)       == {s[i] : i \in 1..Len(s)}
DataAt(h, s)   == [i \in 1..Len(s) |-> h.data[s[i]]]
NodeSet(h, l)  == Range(NodesOf(h, l))
ValuesOf(h, l) == DataAt(h, NodesOf(h, l))
IndexOf(s, p)  == IF \E i \in 1..Len(s) : s[i] = p
                  THEN CHOOSE i \in 1..Len(s) : s[i] = p
                  ELSE Len(s) + 1

\* ---- the initial state: two default-constructed lists, an empty heap ---
Init ==
  /\ data = [n \in Nodes |-> NoData]
  /\ pNext = [n \in Nodes |-> Null]
  /\ pPrev = [n \in Nodes |-> Null]
  /\ live = {}
  /\ pHead = [l \in Lists |-> Null]
  /\ pTail = [l \in Lists |-> Null]
  /\ numElements = [l \in Lists |-> 0]
  /\ constructed = [l \in Lists |-> TRUE]
  /\ aborted = FALSE
  /\ last = Call("init", NoList, NoList, Null, 0, <<>>, Null, 0)

\* the positions a caller may pass for list l: one of its nodes, or end()
Positions(l) == NodeSet(HS, l) \cup {end}

\* ---- actions: one per public operation ---------------------------------
\* a call needs a running program and operands whose lifetime has begun; a
\* constructor needs storage that holds no list
Usable(l) == ~aborted /\ constructed[l]
Vacant(l) == ~aborted /\ ~constructed[l]

\* the values a call is made with, given the node its allocation yields: a
\* call whose allocation fails never reads its argument, so one value stands
\* for all of them
Args(n) == IF n = Null THEN {CHOOSE v \in Values : TRUE} ELSE Values

DefaultConstruct(l) ==
  /\ Vacant(l)
  /\ Set(list_default(HS, l))
  /\ constructed' = [constructed EXCEPT ![l] = TRUE]
  /\ last' = Call("list", l, NoList, Null, 0, <<>>, Null, 0)

CopyConstruct(l, r) ==
  /\ Vacant(l) /\ Usable(r)
  /\ Len(NodesOf(HS, r)) <= Cardinality(Free(HS))
  /\ \E order \in AllocOrders(HS, Len(NodesOf(HS, r))) : Set(list_copy(HS, l, r, order))
  /\ constructed' = [constructed EXCEPT ![l] = TRUE]
  /\ last' = Call("list_copy", l, r, Null, 0, <<>>, Null, 0)

MoveConstruct(l, r) ==
  /\ Vacant(l) /\ Usable(r)
  /\ Set(list_move(HS, l, r))
  /\ constructed' = [constructed EXCEPT ![l] = TRUE]
  /\ last' = Call("list_move", l, r, Null, 0, <<>>, Null, 0)

FillConstruct(l) ==
  /\ Vacant(l)
  /\ \E num \in 0..MaxLit, t \in Values :
       /\ num <= Cardinality(Free(HS))
       /\ \E order \in AllocOrders(HS, num) : Set(list_fill(HS, l, num, t, order))
       /\ last' = Call("list_fill", l, NoList, Null, t, <<>>, Null, num)
  /\ constructed' = [constructed EXCEPT ![l] = TRUE]

RangeConstruct(l) ==
  /\ Vacant(l)
  /\ \E src \in Lits :
       /\ Len(src) <= Cardinality(Free(HS))
       /\ \E order \in AllocOrders(HS, Len(src)) : Set(list_range(HS, l, src, order))
       /\ last' = Call("list_range", l, NoList, Null, 0, src, Null, 0)
  /\ constructed' = [constructed EXCEPT ![l] = TRUE]

IlConstruct(l) ==
  /\ Vacant(l)
  /\ \E il \in Lits :
       /\ Len(il) <= Cardinality(Free(HS))
       /\ \E order \in AllocOrders(HS, Len(il)) : Set(list_il(HS, l, il, order))
       /\ last' = Call("list_il", l, NoList, Null, 0, il, Null, 0)
  /\ constructed' = [constructed EXCEPT ![l] = TRUE]

Destruct(l) ==
  /\ Usable(l)
  /\ Set(list_destroy(HS, l))
  /\ constructed' = [constructed EXCEPT ![l] = FALSE]
  /\ last' = Call("~list", l, NoList, Null, 0, <<>>, Null, numElements[l])

CopyAssign(l, r) ==
  /\ Usable(l) /\ Usable(r)
  /\ Len(NodesOf(HS, r)) - Len(NodesOf(HS, l)) <= Cardinality(Free(HS))
  /\ \E order \in AllocOrders(HS, Max(0, Len(NodesOf(HS, r)) - Len(NodesOf(HS, l)))) :
       Set(copy_assign(HS, l, r, order))
  /\ last' = Call("copy_assign", l, r, Null, 0, <<>>, Null, numElements[l])
  /\ UNCHANGED constructed

MoveAssign(l, r) ==
  /\ Usable(l) /\ Usable(r)
  /\ Len(NodesOf(HS, r)) - Len(NodesOf(HS, l)) <= Cardinality(Free(HS))
  /\ \E order \in AllocOrders(HS, Max(0, Len(NodesOf(HS, r)) - Len(NodesOf(HS, l)))) :
       Set(move_assign(HS, l, r, order))
  /\ last' = Call("move_assign", l, r, Null, 0, <<>>, Null, numElements[l])
  /\ UNCHANGED constructed

IlAssign(l) ==
  /\ Usable(l)
  /\ \E rhs \in Lits :
       /\ Len(rhs) - Len(NodesOf(HS, l)) <= Cardinality(Free(HS))
       /\ \E order \in AllocOrders(HS, Max(0, Len(rhs) - Len(NodesOf(HS, l)))) :
            Set(il_assign(HS, l, rhs, order))
       /\ last' = Call("il_assign", l, NoList, Null, 0, rhs, Null, numElements[l])
  /\ UNCHANGED constructed

Swap(l, r) ==
  /\ Usable(l) /\ Usable(r)
  /\ Set(swap(HS, l, r))
  /\ last' = Call("swap", l, r, Null, 0, <<>>, Null, numElements[l])
  /\ UNCHANGED constructed

ListSwap(l, r) ==
  /\ Usable(l) /\ Usable(r)
  /\ Set(list_swap(HS, l, r))
  /\ last' = Call("list_swap", l, r, Null, 0, <<>>, Null, numElements[l])
  /\ UNCHANGED constructed

Clear(l) ==
  /\ Usable(l)
  /\ Set(clear(HS, l))
  /\ last' = Call("clear", l, NoList, Null, 0, <<>>, Null, numElements[l])
  /\ UNCHANGED constructed

PushBack(l) ==
  /\ Usable(l)
  /\ \E n \in Free(HS) \cup {Null} : \E v \in Args(n) :
       /\ Set(push_back(HS, l, v, n))
       /\ last' = IF n = Null THEN Raised("push_back", l, "bad_alloc")
                  ELSE Call("push_back", l, NoList, Null, v, <<>>, Null, numElements[l])
  /\ UNCHANGED constructed

PushBackMove(l) ==
  /\ Usable(l)
  /\ \E n \in Free(HS) \cup {Null} : \E v \in Args(n) :
       /\ Set(push_back_move(HS, l, v, n))
       /\ last' = IF n = Null THEN Raised("push_back_move", l, "bad_alloc")
                  ELSE Call("push_back_move", l, NoList, Null, v, <<>>, Null, numElements[l])
  /\ UNCHANGED constructed

PushFront(l) ==
  /\ Usable(l)
  /\ \E n \in Free(HS) \cup {Null} : \E v \in Args(n) :
       /\ Set(push_front(HS, l, v, n))
       /\ last' = IF n = Null THEN Raised("push_front", l, "bad_alloc")
                  ELSE Call("push_front", l, NoList, Null, v, <<>>, Null, numElements[l])
  /\ UNCHANGED constructed

PushFrontMove(l) ==
  /\ Usable(l)
  /\ \E n \in Free(HS) \cup {Null} : \E v \in Args(n) :
       /\ Set(push_front_move(HS, l, v, n))
       /\ last' = IF n = Null THEN Raised("push_front_move", l, "bad_alloc")
                  ELSE Call("push_front_move", l, NoList, Null, v, <<>>, Null, numElements[l])
  /\ UNCHANGED constructed

PopBack(l) ==
  /\ Usable(l)
  /\ Set(pop_back(HS, l))
  /\ last' = Call("pop_back", l, NoList, pTail[l], 0, <<>>, Null, numElements[l])
  /\ UNCHANGED constructed

PopFront(l) ==
  /\ Usable(l)
  /\ Set(pop_front(HS, l))
  /\ last' = Call("pop_front", l, NoList, pHead[l], 0, <<>>, Null, numElements[l])
  /\ UNCHANGED constructed

Erase(l) ==
  /\ Usable(l)
  /\ \E it \in Positions(l) :
       /\ Set(erase(HS, l, it))
       /\ last' = Call("erase", l, NoList, it, 0, <<>>, erase_ret(HS, l, it), numElements[l])
  /\ UNCHANGED constructed

Insert(l) ==
  /\ Usable(l)
  /\ \E n \in Free(HS) \cup {Null} : \E it \in Positions(l), v \in Args(n) :
       /\ Set(insert(HS, l, it, v, n))
       /\ last' = IF n = Null THEN Raised("insert", l, "bad_alloc")
                  ELSE Call("insert", l, NoList, it, v, <<>>,
                            insert_ret(HS, l, it, v, n), numElements[l])
  /\ UNCHANGED constructed

InsertMove(l) ==
  /\ Usable(l)
  /\ \E n \in Free(HS) \cup {Null} : \E it \in Positions(l), v \in Args(n) :
       /\ Set(insert_move(HS, l, it, v, n))
       /\ last' = IF n = Null THEN Raised("insert_move", l, "bad_alloc")
                  ELSE Call("insert_move", l, NoList, it, v, <<>>,
                            insert_move_ret(HS, l, it, v, n), numElements[l])
  /\ UNCHANGED constructed

\* the outcome of an access: the element and its node, or the failure
Access(op, l, it, res) ==
  IF res.fail = "none" THEN Call(op, l, NoList, it, res.v, <<>>, res.ref, 0)
  ELSE Raised(op, l, res.fail)

Front(l) ==
  /\ Usable(l)
  /\ last' = Access("front", l, Null, front(HS, l))
  /\ UNCHANGED <<data, pNext, pPrev, live, pHead, pTail, numElements, constructed, aborted>>

Back(l) ==
  /\ Usable(l)
  /\ last' = Access("back", l, Null, back(HS, l))
  /\ UNCHANGED <<data, pNext, pPrev, live, pHead, pTail, numElements, constructed, aborted>>

\* an iterator a caller may hold: one naming a live node, or the null position
Iterators == live \cup {Null}

Deref ==
  /\ ~aborted
  /\ \E p \in Iterators : last' = Access("*", NoList, p, deref(HS, p))
  /\ UNCHANGED <<data, pNext, pPrev, live, pHead, pTail, numElements, constructed, aborted>>

\* the four movements of an iterator; ret is its position afterwards
Increment ==
  /\ ~aborted
  /\ \E p \in Iterators :
       last' = Call("++", NoList, NoList, p, 0, <<>>, iter_inc(HS, p), 0)
  /\ UNCHANGED <<data, pNext, pPrev, live, pHead, pTail, numElements, constructed, aborted>>

IncrementPost ==
  /\ ~aborted
  /\ \E p \in Iterators :
       last' = Call("++(int)", NoList, NoList, p, 0, <<>>, iter_inc_post(HS, p), 0)
  /\ UNCHANGED <<data, pNext, pPrev, live, pHead, pTail, numElements, constructed, aborted>>

Decrement ==
  /\ ~aborted
  /\ \E p \in Iterators :
       last' = Call("--", NoList, NoList, p, 0, <<>>, iter_dec(HS, p), 0)
  /\ UNCHANGED <<data, pNext, pPrev, live, pHead, pTail, numElements, constructed, aborted>>

DecrementPost ==
  /\ ~aborted
  /\ \E p \in Iterators :
       last' = Call("--(int)", NoList, NoList, p, 0, <<>>, iter_dec_post(HS, p), 0)
  /\ UNCHANGED <<data, pNext, pPrev, live, pHead, pTail, numElements, constructed, aborted>>

Next ==
  \/ \E l \in Lists : DefaultConstruct(l)
  \/ \E l, r \in Lists : CopyConstruct(l, r)
  \/ \E l, r \in Lists : MoveConstruct(l, r)
  \/ \E l \in Lists : FillConstruct(l)
  \/ \E l \in Lists : RangeConstruct(l)
  \/ \E l \in Lists : IlConstruct(l)
  \/ \E l \in Lists : Destruct(l)
  \/ \E l, r \in Lists : CopyAssign(l, r)
  \/ \E l, r \in Lists : MoveAssign(l, r)
  \/ \E l \in Lists : IlAssign(l)
  \/ \E l, r \in Lists : Swap(l, r)
  \/ \E l, r \in Lists : ListSwap(l, r)
  \/ \E l \in Lists : Clear(l)
  \/ \E l \in Lists : PushBack(l)
  \/ \E l \in Lists : PushBackMove(l)
  \/ \E l \in Lists : PushFront(l)
  \/ \E l \in Lists : PushFrontMove(l)
  \/ \E l \in Lists : PopBack(l)
  \/ \E l \in Lists : PopFront(l)
  \/ \E l \in Lists : Erase(l)
  \/ \E l \in Lists : Insert(l)
  \/ \E l \in Lists : InsertMove(l)

Spec == Init /\ [][Next]_vars

\* The accessors and the iterator movements read the lists and leave them as
\* they are. They are applied to the lists that construction, push, insert,
\* erase and destruction build: these reach every arrangement of nodes and
\* values that Next reaches.
NextObserved ==
  \/ \E l \in Lists : DefaultConstruct(l)
  \/ \E l \in Lists : Destruct(l)
  \/ \E l \in Lists : PushBack(l)
  \/ \E l \in Lists : PushFront(l)
  \/ \E l \in Lists : Erase(l)
  \/ \E l \in Lists : Insert(l)
  \/ \E l \in Lists : Front(l)
  \/ \E l \in Lists : Back(l)
  \/ Deref
  \/ Increment
  \/ IncrementPost
  \/ Decrement
  \/ DecrementPost

SpecObserved == Init /\ [][NextObserved]_vars

\* ---- the state seen through the public interface ----------------------
Constructed == {l \in Lists : constructed[l]}
Chain(l)    == NodesOf(HS, l)           \* the nodes of l, head first
Elems(l)    == ValuesOf(HS, l)          \* the values of l, head first
Owned(l)    == NodeSet(HS, l)
PushOps     == {"push_back", "push_back_move", "push_front", "push_front_move"}
InsertOps   == {"insert", "insert_move"}
EraseOps    == {"erase", "pop_back", "pop_front"}
Without(s, i) == SubSeq(s, 1, i - 1) \o SubSeq(s, i + 1, Len(s))
With(s, i, x) == SubSeq(s, 1, i - 1) \o <<x>> \o SubSeq(s, i, Len(s))

\* C1: size() is the number of nodes met from head by following next, the
\* walk ends at tail, empty() is (size() = 0), and count = 0 iff head is
\* null iff tail is null.
C1_SizeCountsNodes ==
  \A l \in Constructed :
    /\ size(HS, l) = Len(Chain(l))
    /\ (Chain(l) # <<>> => Chain(l)[Len(Chain(l))] = pTail[l])
    /\ empty(HS, l) = (Len(Chain(l)) = 0)
    /\ (numElements[l] = 0) = (pHead[l] = Null)
    /\ (pHead[l] = Null) = (pTail[l] = Null)

C1_Witness ==
  /\ last.op = "erase" /\ last.it # Null
  /\ numElements[last.l] = 2

\* C2: the links are symmetric; in a non-empty list head is the only node
\* with no prev and tail the only node with no next; an empty list has null
\* head and tail.
C2_LinksSymmetric ==
  \A l \in Constructed :
    /\ \A a \in Owned(l) :
         /\ pNext[a] # Null => pPrev[pNext[a]] = a
         /\ pPrev[a] # Null => pNext[pPrev[a]] = a
         /\ (pPrev[a] = Null) = (a = pHead[l])
         /\ (pNext[a] = Null) = (a = pTail[l])
    /\ (Owned(l) # {} => pHead[l] \in Owned(l) /\ pTail[l] \in Owned(l))
    /\ (numElements[l] = 0 => pHead[l] = Null /\ pTail[l] = Null)

C2_Witness ==
  /\ last.op \in InsertOps /\ last.it # Null
  /\ pPrev[last.ret] # Null /\ pNext[last.ret] # Null

\* C3: every live node is reachable from exactly one list, no list reaches
\* a released node, and a mutation of one list leaves the sequence of values
\* of the other list unchanged.
C3_NoSharing ==
  /\ \A n \in live : \E l \in Constructed : n \in Owned(l)
  /\ \A l \in Constructed : Owned(l) \subseteq live
  /\ \A l, k \in Constructed : l # k => Owned(l) \cap Owned(k) = {}
  /\ \A l \in Constructed : Cardinality(Owned(l)) = Len(Chain(l))

C3_Independent ==
  (/\ last'.op \in PushOps \cup InsertOps \cup EraseOps \cup
                   {"clear", "il_assign", "copy_assign"}
   /\ last'.r # last'.l)
  => \A k \in Lists \ {last'.l} : ValuesOf(HS', k) = ValuesOf(HS, k)

C3_ExclusiveOwnership == [](C3_NoSharing) /\ [][C3_Independent]_vars

\* a node erased from one list while the other list holds nodes too
C3_Witness ==
  /\ last.op = "erase" /\ last.it # Null
  /\ \E k \in Constructed \ {last.l} : numElements[k] >= 1
  /\ numElements[last.l] >= 1

\* C4: after move-assignment between distinct lists the source is empty.
C4_MoveAssignEmptiesSource ==
  (last.op = "move_assign" /\ last.l # last.r)
  => /\ size(HS, last.r) = 0
     /\ empty(HS, last.r)
     /\ pHead[last.r] = Null
     /\ pTail[last.r] = Null

\* C5: copy-assignment, move-assignment and copy construction between
\* distinct lists leave the destination with the length and the values, in
\* order, the source had before the call; the copying forms leave the source
\* as it was.
C5_Step ==
  (last'.op \in {"copy_assign", "move_assign", "list_copy"} /\ last'.l # last'.r)
  => /\ ValuesOf(HS', last'.l) = ValuesOf(HS, last'.r)
     /\ numElements'[last'.l] = numElements[last'.r]
     /\ (last'.op \in {"copy_assign", "list_copy"}
           => /\ ValuesOf(HS', last'.r) = ValuesOf(HS, last'.r)
              /\ NodesOf(HS', last'.r) = NodesOf(HS, last'.r)
              /\ numElements'[last'.r] = numElements[last'.r])

C6_LiteralAssign ==
  last.op = "il_assign"
  => /\ Elems(last.l) = last.lit
     /\ size(HS, last.l) = Len(last.lit)
     /\ \A n \in live : \E l \in Constructed : n \in Owned(l)

\* a non-empty literal onto a longer list
C6_Witness ==
  /\ last.op = "il_assign"
  /\ Len(last.lit) >= 1
  /\ last.n > Len(last.lit)
  /\ Elems(last.l) = last.lit

\* C7: insert places the value immediately before the named position (at
\* the back for end()), returns the new node, keeps the other elements in
\* order and grows size() by 1; on an empty list the new node is head and
\* tail.
C7_Step ==
  (last'.op \in InsertOps /\ last'.fail = "none")
  => \A i \in {IndexOf(NodesOf(HS, last'.l), last'.it)} :
     LET l == last'.l
     IN  /\ ValuesOf(HS', l) = With(ValuesOf(HS, l), i, last'.v)
         /\ NodesOf(HS', l) = With(NodesOf(HS, l), i, last'.ret)
         /\ last'.ret \notin live
         /\ numElements'[l] = numElements[l] + 1
         /\ (numElements[l] = 0 => pHead'[l] = last'.ret /\ pTail'[l] = last'.ret)

C7_InsertBefore == [][C7_Step]_vars

\* an insert in the middle of a list
C7_Witness ==
  /\ last.op = "insert" /\ last.it # Null
  /\ pNext[last.ret] = last.it
  /\ pPrev[last.ret] # Null
  /\ data[last.ret] = last.v

\* C8: erase of a node of the list (pop_front, pop_back: of head, of tail)
\* removes that node only, keeps the others in order, shrinks size() by 1
\* and returns the node that followed, end() after the tail; erasing the
\* only node leaves head and tail null.
C8_Step ==
  (last'.op \in EraseOps /\ last'.it # Null)
  => \A N \in {NodesOf(HS, last'.l)} : \A i \in {IndexOf(N, last'.it)} :
     LET l == last'.l
     IN  /\ NodesOf(HS', l) = Without(N, i)
         /\ ValuesOf(HS', l) = Without(ValuesOf(HS, l), i)
         /\ numElements'[l] = numElements[l] - 1
         /\ last'.it \notin live'
         /\ (last'.op = "erase"
               => last'.ret = IF i < Len(N) THEN N[i + 1] ELSE end)
         /\ (Len(N) = 1 => /\ pHead'[l] = Null /\ pTail'[l] = Null
                           /\ size(HS', l) = 0)
         /\ (Len(N) > 1 => /\ pHead'[l] = Without(N, i)[1]
                           /\ pTail'[l] = Without(N, i)[Len(N) - 1])

C8_EraseRemovesOne == [][C8_Step]_vars

\* the only node of a list erased
C8_Witness ==
  /\ last.op = "erase" /\ last.it # Null
  /\ last.n = 1
  /\ last.ret = end
  /\ pHead[last.l] = Null /\ pTail[last.l] = Null /\ numElements[last.l] = 0

\* C9: push_front, push_back and insert release no node and change neither
\* the value nor the list of any node already there; erase releases the
\* named node only and leaves every other node as it was.
C9_Step ==
  /\ last'.op \in PushOps \cup InsertOps
       => \A own  \in {[l \in Lists |-> NodeSet(HS, l)]},     \* each list's nodes before
             own2 \in {[l \in Lists |-> NodeSet(HS', l)]} :   \* and after
            \A n \in live :
              /\ n \in live'
              /\ data'[n] = data[n]
              /\ \A l \in Lists : (n \in own[l]) = (n \in own2[l])
  /\ (last'.op \in EraseOps /\ last'.it # Null)
       => \A own  \in {[l \in Lists |-> NodeSet(HS, l)]},
             own2 \in {[l \in Lists |-> NodeSet(HS', l)]} :
            /\ live' = live \ {last'.it}
            /\ \A n \in live \ {last'.it} :
                 /\ data'[n] = data[n]
                 /\ \A l \in Lists : (n \in own[l]) = (n \in own2[l])

C9_IteratorsStayValid == [][C9_Step]_vars

\* a push onto a list that already holds two nodes
C9_Witness ==
  /\ last.op \in PushOps
  /\ last.n = 2
  /\ numElements[last.l] = 3

\* C10: push_front(v) turns S into <<v>> \o S and push_back(v) into
\* S \o <<v>>, copy and move variants alike; on an empty list the new node is
\* head and tail; size() grows by 1.
C10_Step ==
  (last'.op \in PushOps /\ last'.fail = "none")
  => LET l == last'.l
         S == ValuesOf(HS, l)
     IN  /\ (last'.op \in {"push_front", "push_front_move"}
               => ValuesOf(HS', l) = <<last'.v>> \o S)
         /\ (last'.op \in {"push_back", "push_back_move"}
               => ValuesOf(HS', l) = S \o <<last'.v>>)
         /\ numElements'[l] = numElements[l] + 1
         /\ (S = <<>> => pHead'[l] = pTail'[l] /\ pHead'[l] \notin live)
         /\ pHead'[l] # Null /\ pTail'[l] # Null

C10_PushAtEnds == [][C10_Step]_vars

\* a move push_front onto a non-empty list whose head holds another value
C10_Witness ==
  /\ last.op = "push_front_move"
  /\ last.n >= 1
  /\ Elems(last.l)[1] = last.v
  /\ Elems(last.l)[2] # last.v

\* C11: erase of the null position returns end() and changes nothing, on
\* empty and non-empty lists alike; pop_front and pop_back on an empty list
\* change nothing; none of them fails.
C11_Step ==
  (last'.op \in EraseOps /\ last'.it = Null)
  => /\ HS' = HS
     /\ constructed' = constructed
     /\ last'.ret = end
     /\ last'.fail = "none"
     /\ (last'.op \in {"pop_back", "pop_front"} => ValuesOf(HS, last'.l) = <<>>)

C11_NullEraseIsNoOp == [][C11_Step]_vars

\* erase(end()) on a list that holds nodes
C11_Witness ==
  /\ last.op = "erase" /\ last.it = Null
  /\ numElements[last.l] >= 1
  /\ last.ret = end

\* C12: move construction gives the new list the source's head, tail and
\* count (the same nodes, values and order; no node allocated or released)
\* and leaves the source with null head and tail and count 0.
C12_Step ==
  last'.op = "list_move"
  => LET l == last'.l
         r == last'.r
     IN  /\ pHead'[l] = pHead[r] /\ pTail'[l] = pTail[r]
         /\ numElements'[l] = numElements[r]
         /\ NodesOf(HS', l) = NodesOf(HS, r)
         /\ ValuesOf(HS', l) = ValuesOf(HS, r)
         /\ live' = live /\ data' = data /\ pNext' = pNext /\ pPrev' = pPrev
         /\ pHead'[r] = Null /\ pTail'[r] = Null /\ numElements'[r] = 0
         /\ empty(HS', r)

C12_MoveConstructAdopts == [][C12_Step]_vars

\* a list of two nodes adopted by a move-constructed list
C12_Witness ==
  /\ last.op = "list_move"
  /\ numElements[last.l] = 2 /\ Len(Chain(last.l)) = 2
  /\ numElements[last.r] = 0

\* C13: swap (member and free function) exchanges head, tail and count of
\* the two lists and nothing else: no node is allocated, released, relinked
\* or given another value, so the nodes of one list are met, in the same
\* order, by traversing the other.
C13_Step ==
  last'.op \in {"swap", "list_swap"}
  => LET l == last'.l
         r == last'.r
     IN  /\ pHead'[l] = pHead[r] /\ pHead'[r] = pHead[l]
         /\ pTail'[l] = pTail[r] /\ pTail'[r] = pTail[l]
         /\ numElements'[l] = numElements[r] /\ numElements'[r] = numElements[l]
         /\ live' = live /\ data' = data /\ pNext' = pNext /\ pPrev' = pPrev
         /\ NodesOf(HS', l) = NodesOf(HS, r) /\ NodesOf(HS', r) = NodesOf(HS, l)
         /\ ValuesOf(HS', l) = ValuesOf(HS, r) /\ ValuesOf(HS', r) = ValuesOf(HS, l)

RECURSIVE Forward(_, _, _)
Forward(h, p, k) ==
  IF p = end \/ k = 0 THEN <<>>
  ELSE <<deref(h, p).v>> \o Forward(h, iter_inc(h, p), k - 1)

RECURSIVE Backward(_, _, _)
Backward(h, p, k) ==
  IF p = Null \/ k = 0 THEN <<>>
  ELSE <<deref(h, p).v>> \o Backward(h, iter_dec(h, p), k - 1)

Reverse(s) == [i \in 1..Len(s) |-> s[Len(s) + 1 - i]]

\* the sequence a constructor was given
Given == IF last.op = "list_fill" THEN [i \in 1..last.n |-> last.v] ELSE last.lit

\* C14: a list constructed from a sequence S (a literal, an iterator range,
\* or a value repeated count times) reads S from begin() by increment and S
\* reversed from rbegin() by decrement.
C14_RoundTrip ==
  last.op \in {"list_fill", "list_range", "list_il"}
  => /\ Forward(HS, begin(HS, last.l), MaxNodes + 1) = Given
     /\ Backward(HS, rbegin(HS, last.l), MaxNodes + 1) = Reverse(Given)
     /\ size(HS, last.l) = Len(Given)

\* a list constructed from a literal of two different values
C14_Witness ==
  /\ last.op = "list_il"
  /\ Len(last.lit) = 2 /\ last.lit[1] # last.lit[2]
  /\ Elems(last.l) = last.lit

\* C15: clear() and the destructor release every node of the list, once
\* each, and leave head and tail null and the count 0; the nodes of the
\* other list stay as they were; on an empty list nothing changes.
C15_Step ==
  last'.op \in {"clear", "~list"}
  => LET l == last'.l
     IN  /\ live' = live \ NodeSet(HS, l)
         /\ pHead'[l] = Null /\ pTail'[l] = Null
         /\ numElements'[l] = numElements[l] - Len(NodesOf(HS, l))
         /\ numElements'[l] = 0
         /\ \A n \in live' : data'[n] = data[n] /\ pNext'[n] = pNext[n]
                             /\ pPrev'[n] = pPrev[n]
         /\ \A k \in Lists \ {l} : /\ pHead'[k] = pHead[k] /\ pTail'[k] = pTail[k]
                                   /\ numElements'[k] = numElements[k]
         /\ (NodesOf(HS, l) = <<>> => HS' = HS)

C15_ClearReleasesAll == [][C15_Step]_vars

\* clear() of a list of two nodes
C15_Witness ==
  /\ last.op = "clear" /\ last.n = 2
  /\ pHead[last.l] = Null /\ pTail[last.l] = Null /\ numElements[last.l] = 0

\* C16: front() and back() on an empty list and operator* on the null
\* position raise a failure; on a non-empty list front() returns the head's
\* element and back() the tail's, and operator* on a node returns that
\* node's element; none of them changes the list.
C16_Step ==
  last'.op \in {"front", "back", "*"}
  => LET c == last'
         S == ValuesOf(HS, c.l)
         N == NodesOf(HS, c.l)
     IN  /\ HS' = HS /\ constructed' = constructed
         /\ (c.op = "front" =>
               IF S = <<>> THEN c.fail = "throw"
               ELSE c.fail = "none" /\ c.v = S[1] /\ c.ret = N[1])
         /\ (c.op = "back" =>
               IF S = <<>> THEN c.fail = "throw"
               ELSE c.fail = "none" /\ c.v = S[Len(S)] /\ c.ret = N[Len(N)])
         /\ (c.op = "*" =>
               IF c.fail = "none"
               THEN c.it \in live /\ c.v = data[c.it] /\ c.ret = c.it
               ELSE c.fail = "throw" /\ c.it = Null)

C16_AccessOrFail == [][C16_Step]_vars

\* back() of a list whose tail holds another value than its head
C16_Witness ==
  /\ last.op = "back" /\ last.fail = "none"
  /\ Len(Elems(last.l)) >= 2
  /\ Elems(last.l)[1] # last.v
  /\ data[pTail[last.l]] = last.v

\* C17: ++ (prefix and postfix) moves an iterator on a node to the node's
\* next and -- to its prev: from the tail ++ gives end(), from the head --
\* gives the null position, and a null iterator stays null; none fails.
C17_NullSafeMovement ==
  last.op \in {"++", "++(int)", "--", "--(int)"}
  => /\ last.fail = "none"
     /\ (last.it = Null => last.ret = Null)
     /\ (last.it # Null =>
           \E l \in Constructed :
             LET N == Chain(l)
                 i == IndexOf(N, last.it)
             IN  /\ last.it \in Owned(l)
                 /\ (last.op \in {"++", "++(int)"} =>
                       /\ last.ret = pNext[last.it]
                       /\ last.ret = IF i < Len(N) THEN N[i + 1] ELSE end)
                 /\ (last.op \in {"--", "--(int)"} =>
                       /\ last.ret = pPrev[last.it]
                       /\ last.ret = IF i > 1 THEN N[i - 1] ELSE Null))

\* a postfix decrement from the tail of a list to the node before it
C17_Witness ==
  /\ last.op = "--(int)" /\ last.it # Null /\ last.ret # Null
  /\ \E l \in Constructed : last.it = pTail[l]
  /\ pNext[last.ret] = last.it

\* C18: when the allocation in push_front, push_back or insert (copy and
\* move variants) fails, the failure reaches the caller and the list, with
\* every node and every other list, is as it was before the call.
C18_Step ==
  (last'.op \in PushOps \cup InsertOps /\ last'.fail # "none")
  => /\ last'.fail = "bad_alloc"
     /\ HS' = HS
     /\ constructed' = constructed

C18_FailedAllocationChangesNothing == [][C18_Step]_vars

\* a push_back on a list of two nodes whose allocation failed
C18_Witness ==
  /\ last.op = "push_back" /\ last.fail = "bad_alloc"
  /\ numElements[last.l] = 2
  /\ Len(Chain(last.l)) = 2

\* C19: copy-, move- and literal-assignment onto a destination of d nodes
\* from a source of s elements keep the first min(d, s) destination nodes,
\* in place and alive, holding the source's values; the s - d missing nodes
\* are newly allocated and appended; the d - s surplus nodes, from the
\* cursor to the tail, are the only ones released; an empty source leaves
\* what clear() leaves.
C19_Step ==
  last'.op \in {"copy_assign", "move_assign", "il_assign"}
  => \A D  \in {NodesOf(HS, last'.l)},      \* the destination's nodes before
        D2 \in {NodesOf(HS', last'.l)},     \* and after
        S  \in {IF last'.op = "il_assign" THEN last'.lit ELSE ValuesOf(HS, last'.r)} :
     LET l == last'.l
         d == Len(D)
         s == Len(S)
         m == IF d < s THEN d ELSE s
     IN  /\ Len(D2) = s
         /\ \A i \in 1..m :
              D2[i] = D[i] /\ D[i] \in live' /\ data'[D[i]] = S[i]
         /\ \A i \in (m + 1)..s :
              D2[i] \notin live /\ D2[i] \in live' /\ data'[D2[i]] = S[i]
         /\ live' \ live = {D2[i] : i \in (d + 1)..s}
         /\ Cardinality(live' \ live) = Max(0, s - d)
         /\ live \ live' = {D[i] : i \in (s + 1)..d}
         /\ Cardinality(live \ live') = Max(0, d - s)
         /\ (s = 0 => HS' = clear(HS, l))

C19_AssignReusesNodes == [][C19_Step]_vars

\* a move-assignment of a one-element list onto a list of two nodes: the
\* head is kept and overwritten, the second node released
C19_Witness ==
  /\ last.op = "move_assign" /\ last.l # last.r
  /\ last.n = 2
  /\ numElements[last.l] = 1
  /\ numElements[last.r] = 1
  /\ data[pHead[last.l]] = data[pHead[last.r]]
  /\ Cardinality(live) = 2

\* C20: no assertion of erase fails, whatever operations came before and
\* whether erase was called directly, by pop_front or pop_back, or by the
\* trimming loop of an assignment: in every list a node without a
\* predecessor is the head and a node without a successor is the tail.
C20_EraseAssertionsHold ==
  /\ ~aborted
  /\ \A l \in Constructed :
       \A n \in Owned(l) :
         /\ (pPrev[n] = Null => n = pHead[l])
         /\ (pNext[n] = Null => n = pTail[l])

\* a literal assignment whose trimming loop erased two surplus nodes, the
\* second of them the tail, and the program still runs
C20_Witness ==
  /\ last.op = "il_assign"
  /\ last.n = Len(last.lit) + 2
  /\ Len(last.lit) = 1
  /\ ~aborted
  /\ pHead[last.l] = pTail[last.l]

\* C21: copy-assigning a list to itself leaves it as it was, whatever its
\* length: the same nodes in the same order holding the same values, the
\* same size(), no node allocated and none released.
C21_Step ==
  (last'.op = "copy_assign" /\ last'.l = last'.r)
  => LET l == last'.l
     IN  /\ NodesOf(HS', l) = NodesOf(HS, l)
         /\ ValuesOf(HS', l) = ValuesOf(HS, l)
         /\ size(HS', l) = size(HS, l)
         /\ pHead'[l] = pHead[l] /\ pTail'[l] = pTail[l]
         /\ live' = live
         /\ HS' = HS
         /\ constructed' = constructed

C21_SelfAssignChangesNothing == [][C21_Step]_vars

\* a list of two different values assigned to itself
C21_Witness ==
  /\ last.op = "copy_assign" /\ last.l = last.r
  /\ last.n = 2
  /\ Len(Chain(last.l)) = 2
  /\ Elems(last.l)[1] # Elems(last.l)[2]
====
